---- MODULE Spec2Model ----
(***************************************************************************)
(* A model of the two stateful parts of esniper's util.c:                  *)
(*   - the password obfuscation (clearPassword, encryptPassword,          *)
(*     decryptPassword over options.password, options.encrypted,          *)
(*     passwordPad, passwordLen);                                          *)
(*   - the proxy parser (parseProxy over a proxy_t).                       *)
(*                                                                         *)
(* Memory: a heap buffer is the sequence of its bytes (the terminating     *)
(* NUL included), and the null pointer is the empty sequence: malloc is    *)
(* never asked for fewer than one byte here.                               *)
(***************************************************************************)
EXTENDS Integers, Sequences, FiniteSets

\* ------------------------------------------------------------------ bounds

\* Longest plaintext password the caller supplies (characters, NUL excluded).
MaxPwLen == 2

\* ------------------------------------------------------------ C primitives

\* The null pointer.
NULL == <<>>

\* The values random() is sampled at, after the (char) cast: the byte that
\* leaves a character as it is, the byte that turns 'a' into NUL, and 0xFF.
RandomBytes == {0, 97, 255}

\* The characters a caller's password is made of: 'a' and 'b'.
PwChars == {97, 98}

\* a ^ b on bytes.
RECURSIVE Xor(_, _)
Xor(a, b) ==
  IF a = 0 THEN b
  ELSE IF b = 0 THEN a
  ELSE (((a % 2) + (b % 2)) % 2) + 2 * Xor(a \div 2, b \div 2)

\* strlen(buf): the index of the first NUL byte of a buffer, counted from 0.
RECURSIVE StrlenFrom(_, _)
StrlenFrom(buf, i) ==
  IF i > Len(buf) THEN Len(buf)
  ELSE IF buf[i] = 0 THEN i - 1
  ELSE StrlenFrom(buf, i + 1)

Strlen(buf) == StrlenFrom(buf, 1)

\* min
Min(a, b) == IF a < b THEN a ELSE b

\* All sequences over S of length exactly n, and of length at most n.
RECURSIVE SeqsOfLen(_, _)
SeqsOfLen(S, n) ==
  IF n = 0 THEN {<<>>}
  ELSE {Append(s, x) : s \in SeqsOfLen(S, n - 1), x \in S}

SeqsUpTo(S, n) == UNION {SeqsOfLen(S, k) : k \in 0..n}

\* ------------------------------------------------------------------- state

VARIABLES
  password,      \* options.password: the secret's buffer, or NULL
  encrypted,     \* options.encrypted: 0 or 1
  passwordPad,   \* static char *passwordPad
  passwordLen,   \* static size_t passwordLen
  needSeed,      \* static int needSeed
  plain,         \* the plaintext the caller last stored in options.password
  lastOp,        \* the function called last
  acted,         \* whether that call got past its early return
  released,      \* what the last clearPassword() handed to free()
  heapSmashed,   \* a write landed outside the buffer it was aimed at
  crashed,       \* the process died on an out-of-bounds access
  proxy,         \* the proxy_t parseProxy() stores into
  value,         \* parseProxy()'s last argument
  ret            \* parseProxy()'s last return value

guardVars == <<password, encrypted, passwordPad, passwordLen, needSeed, plain,
               lastOp, acted, released, heapSmashed, crashed>>
proxyVars == <<proxy, value, ret>>
vars == <<password, encrypted, passwordPad, passwordLen, needSeed, plain,
          lastOp, acted, released, heapSmashed, crashed, proxy, value, ret>>

\* Nothing released yet.
NoRelease == [pwSize |-> 0, pwWiped |-> 0, pw |-> NULL, padSize |-> 0, padWiped |-> 0]

\* The buffer a C string occupies: its characters and the terminating NUL.
Buf(s) == Append(s, 0)

InitGuard ==
  /\ password = NULL
  /\ encrypted = 0
  /\ passwordPad = NULL
  /\ passwordLen = 0
  /\ needSeed = 1
  /\ plain = <<>>
  /\ lastOp = "init"
  /\ acted = FALSE
  /\ released = NoRelease
  /\ heapSmashed = FALSE
  /\ crashed = FALSE

\* ---------------------------------------------------- password obfuscation

\* seedPasswordRandom(): seeds once.
seedPasswordRandom == needSeed' = 0

\* The caller stores a new plaintext in options.password (as the option
\* parser and the password prompt do): the old buffer, if any, is replaced by
\* a fresh one holding the string.  It does so when no secret is held or the
\* held one is in plain text; nothing of util.c's own state is touched.  The
\* allocation may reuse the memory clearPassword() released, so what that
\* memory held is no longer known.
SupplyPassword(p) ==
  /\ ~crashed
  /\ password = NULL \/ encrypted = 0
  /\ password' = Buf(p)
  /\ plain' = p
  /\ lastOp' = "supply"
  /\ acted' = TRUE
  /\ released' = NoRelease
  /\ UNCHANGED <<encrypted, passwordPad, passwordLen, needSeed,
                 heapSmashed, crashed>>

\* for (i = 0; i < n; ++i) buf[i] ^= pad[i], on the bytes that lie inside buf.
XorLoop(buf, pad, n) ==
  [i \in 1..Len(buf) |-> IF i <= n THEN Xor(buf[i], pad[i]) ELSE buf[i]]

\* A guard that forgets the flag: an obfuscated secret is obfuscated again.
EncryptReturnsEarlyNoFlag == password = NULL

\* encryptPassword()'s early return.
EncryptReturnsEarly == encrypted # 0 \/ password = NULL

\* encryptPassword()'s loop over the secret.
EncryptLoop(buf, pad, n) == XorLoop(buf, pad, n)

\* decryptPassword()'s early return.
DecryptReturnsEarly == encrypted = 0 \/ password = NULL \/ passwordPad = NULL

\* A loop that stops one byte early (i < passwordLen - 1): the terminator
\* stays obfuscated.
DecryptLoopShort(buf, pad, n) == XorLoop(buf, pad, n - 1)

\* decryptPassword()'s loop over the secret.
DecryptLoop(buf, pad, n) == XorLoop(buf, pad, n)

\* An access to buf[i] with i >= the buffer's size is undefined: the process
\* either dies there or the access lands in the memory next to the buffer.
OutOfBounds(buf, n) == n > Len(buf)

encryptPassword ==
  /\ ~crashed
  /\ lastOp' = "encrypt"
  /\ IF EncryptReturnsEarly
     THEN /\ acted' = FALSE
          /\ UNCHANGED <<password, encrypted, passwordPad, passwordLen,
                         needSeed, plain, released, heapSmashed, crashed>>
     ELSE /\ acted' = TRUE
          /\ seedPasswordRandom
          /\ IF passwordPad = NULL
             THEN /\ passwordLen' = Strlen(password) + 1
                  /\ passwordPad' \in SeqsOfLen(RandomBytes, Strlen(password) + 1)
             ELSE UNCHANGED <<passwordPad, passwordLen>>
          /\ IF OutOfBounds(password, passwordLen')
             THEN \E fault \in BOOLEAN :
                    IF fault
                    THEN /\ crashed' = TRUE
                         /\ UNCHANGED <<password, encrypted, heapSmashed>>
                    ELSE /\ password' = EncryptLoop(password, passwordPad', passwordLen')
                         /\ encrypted' = 1
                         /\ heapSmashed' = TRUE
                         /\ UNCHANGED crashed
             ELSE /\ password' = EncryptLoop(password, passwordPad', passwordLen')
                  /\ encrypted' = 1
                  /\ UNCHANGED <<heapSmashed, crashed>>
          /\ UNCHANGED <<plain, released>>

decryptPassword ==
  /\ ~crashed
  /\ lastOp' = "decrypt"
  /\ IF DecryptReturnsEarly
     THEN /\ acted' = FALSE
          /\ UNCHANGED <<password, encrypted, passwordPad, passwordLen,
                         needSeed, plain, released, heapSmashed, crashed>>
     ELSE /\ acted' = TRUE
          /\ IF OutOfBounds(password, passwordLen)
             THEN \E fault \in BOOLEAN :
                    IF fault
                    THEN /\ crashed' = TRUE
                         /\ UNCHANGED <<password, encrypted, heapSmashed>>
                    ELSE /\ password' = DecryptLoop(password, passwordPad, passwordLen)
                         /\ encrypted' = 0
                         /\ heapSmashed' = TRUE
                         /\ UNCHANGED crashed
             ELSE /\ password' = DecryptLoop(password, passwordPad, passwordLen)
                  /\ encrypted' = 0
                  /\ UNCHANGED <<heapSmashed, crashed>>
          /\ UNCHANGED <<passwordPad, passwordLen, needSeed, plain, released>>

\* clearPassword()'s loop writes random() over the first passwordLen bytes of
\* both buffers; wiped(buf, n, r) is buf after it, r the bytes drawn.
Wiped(buf, n, r) ==
  [i \in 1..Len(buf) |-> IF i <= n THEN r[i] ELSE buf[i]]

\* How many bytes of a buffer of the given size that loop overwrites.
WipedCount(size, n) == Min(size, n)

clearPassword ==
  /\ ~crashed
  /\ lastOp' = "clear"
  /\ acted' = TRUE
  /\ seedPasswordRandom
  /\ IF passwordLen > 0 /\ OutOfBounds(password, passwordLen)
     THEN \E fault \in BOOLEAN :
            IF fault
            THEN /\ crashed' = TRUE
                 /\ UNCHANGED <<password, passwordPad, passwordLen, released,
                                heapSmashed>>
            ELSE /\ \E r \in SeqsOfLen(RandomBytes, Len(password)) :
                      released' = [pwSize |-> Len(password),
                                   pwWiped |-> WipedCount(Len(password), passwordLen),
                                   pw |-> Wiped(password, passwordLen, r),
                                   padSize |-> Len(passwordPad),
                                   padWiped |-> WipedCount(Len(passwordPad), passwordLen)]
                 /\ password' = NULL
                 /\ passwordPad' = NULL
                 /\ passwordLen' = 0
                 /\ heapSmashed' = TRUE
                 /\ UNCHANGED crashed
     ELSE /\ \E r \in SeqsOfLen(RandomBytes, Len(password)) :
               released' = [pwSize |-> Len(password),
                            pwWiped |-> WipedCount(Len(password), passwordLen),
                            pw |-> Wiped(password, passwordLen, r),
                            padSize |-> Len(passwordPad),
                            padWiped |-> WipedCount(Len(passwordPad), passwordLen)]
          /\ password' = NULL
          /\ passwordPad' = NULL
          /\ passwordLen' = 0
          /\ UNCHANGED <<heapSmashed, crashed>>
  /\ UNCHANGED <<encrypted, plain>>

\* -------------------------------------------------------------- the parser

\* The port used when the string names none.
DefaultPort == 80

\* A C string is the sequence of its characters and the terminating NUL.
NulChar == "NUL"

CStr(s) == Append(s, NulChar)

Digits == <<"0", "1", "2", "3", "4", "5", "6", "7", "8", "9">>

DigitValue == [c \in {Digits[i] : i \in 1..10} |->
                 (CHOOSE i \in 1..10 : Digits[i] = c) - 1]

\* isdigit(c)
IsDigit(c) == c \in DOMAIN DigitValue

DigitVal(c) == DigitValue[c]

\* tolower(c), on the letters the inputs are written with.
ToLower(c) ==
  CASE c = "H" -> "h"
    [] c = "T" -> "t"
    [] c = "P" -> "p"
    [] OTHER -> c

HttpPrefix == <<"h", "t", "t", "p", ":", "/", "/">>

\* strncasecmp(s, pat, n) == 0: the first n characters agree, case ignored
\* (a shorter s disagrees at its NUL).
StrncasecmpEq(s, pat, n) ==
  \A i \in 1..n : i <= Len(s) /\ ToLower(s[i]) = ToLower(pat[i])

\* strcspn(s + i, reject), s indexed from 1.
RECURSIVE Strcspn(_, _, _)
Strcspn(s, i, reject) ==
  IF s[i] = NulChar \/ s[i] \in reject THEN 0
  ELSE 1 + Strcspn(s, i + 1, reject)

\* Where a run of digits starting at s[i] ends (the first non-digit).
RECURSIVE DigitsEnd(_, _)
DigitsEnd(s, i) == IF IsDigit(s[i]) THEN DigitsEnd(s, i + 1) ELSE i

\* A digit string without its leading zeros ("0" for zero).
RECURSIVE StripZeros(_)
StripZeros(d) ==
  IF Len(d) > 1 /\ d[1] = "0" THEN StripZeros(Tail(d)) ELSE d

\* a > b on digit strings without leading zeros.
RECURSIVE DigitsGreater(_, _)
DigitsGreater(a, b) ==
  IF Len(a) # Len(b) THEN Len(a) > Len(b)
  ELSE IF a = <<>> THEN FALSE
  ELSE IF a[1] # b[1] THEN DigitVal(a[1]) > DigitVal(b[1])
  ELSE DigitsGreater(Tail(a), Tail(b))

\* LONG_MAX of a 64-bit long, 9223372036854775807.
LongMaxDigits ==
  <<"9", "2", "2", "3", "3", "7", "2", "0", "3", "6",
    "8", "5", "4", "7", "7", "5", "8", "0", "7">>

\* The low 32 bits of a decimal number, as two 16-bit halves.
RECURSIVE Low32(_, _)
Low32(d, acc) ==
  IF d = <<>> THEN acc
  ELSE LET lo == acc.lo * 10 + DigitVal(d[1])
           hi == acc.hi * 10 + (lo \div 65536)
       IN Low32(Tail(d), [hi |-> hi % 65536, lo |-> lo % 65536])

\* (int)x for a long x given by its low 32 bits: two's complement.
IntCast(w) ==
  IF w.hi >= 32768 THEN (w.hi - 65536) * 65536 + w.lo
  ELSE w.hi * 65536 + w.lo

\* strtol(s + i, &end, 10) where s[i] is a digit: the digits are consumed,
\* a value above LONG_MAX sets errno to ERANGE; value is the result after
\* the (int) cast of line 406.
Strtol(s, i) ==
  LET e == DigitsEnd(s, i)
      d == SubSeq(s, i, e - 1)
  IN [end |-> e,
      erange |-> DigitsGreater(StripZeros(d), LongMaxDigits),
      value |-> IntCast(Low32(d, [hi |-> 0, lo |-> 0]))]

\* myStrndup(s + i, len)
MyStrndup(s, i, len) == CStr(SubSeq(s, i, i + len - 1))

\* A disabling return that forgets to clear the host.
DisabledKeepsHost(pr) == [ret |-> 0, proxy |-> pr]

\* The two places that disable the proxy: free the host, return 0.
Disabled(pr) == [ret |-> 0, proxy |-> [pr EXCEPT !.host = NULL]]

\* A rejection after the old host was already freed (free() moved up).
RejectedFreed(pr) == [ret |-> 1, proxy |-> [pr EXCEPT !.host = NULL]]

\* return 1
Rejected(pr) == [ret |-> 1, proxy |-> pr]

\* The stores at the end of parseProxy().
Stored(pr, host, port) == [ret |-> 0, proxy |-> [host |-> host, port |-> port]]

\* What may follow the host and the port: nothing, or one '/' and nothing.
TailOK(s, cp) == s[cp] = NulChar \/ (s[cp] = "/" /\ s[cp + 1] = NulChar)

\* parseProxy(v, pr): the return value and the proxy_t after the call.
ParseProxy(v, pr) ==
  IF v = NULL THEN Disabled(pr)
  ELSE LET start == IF StrncasecmpEq(v, HttpPrefix, 7) THEN 8 ELSE 1
           len == Strcspn(v, start, {":", "/"})
           cp == start + len
           hasPort == v[cp] = ":" /\ IsDigit(v[cp + 1])
           n == Strtol(v, cp + 1)
           port == IF hasPort THEN n.value ELSE DefaultPort
           rest == IF v[cp] = ":" THEN (IF hasPort THEN n.end ELSE cp + 1) ELSE cp
       IN IF len = 0 THEN Disabled(pr)
          ELSE IF hasPort /\ n.erange THEN Rejected(pr)
          ELSE IF ~TailOK(v, rest) THEN Rejected(pr)
          ELSE Stored(pr, MyStrndup(v, start, len), port)

InitProxy ==
  /\ proxy = [host |-> NULL, port |-> 0]
  /\ value = NULL
  /\ ret = 0

parseProxy(v) ==
  /\ LET r == ParseProxy(v, proxy)
     IN /\ proxy' = r.proxy
        /\ ret' = r.ret
  /\ value' = v

\* ------------------------------------------------------------------ inputs

\* Longest string of the exhaustive part of the parser's inputs.
MaxLen == 3

PortStrings ==
  { <<>>,
    <<"0">>,
    <<"0", "0", "8", "0">>,
    <<"8", "0", "8", "0">>,
    <<"2", "1", "4", "7", "4", "8", "3", "6", "4", "7">>,
    <<"2", "1", "4", "7", "4", "8", "3", "6", "4", "8">>,
    <<"4", "2", "9", "4", "9", "6", "7", "2", "9", "6">>,
    LongMaxDigits,
    <<"9", "2", "2", "3", "3", "7", "2", "0", "3", "6",
      "8", "5", "4", "7", "7", "5", "8", "0", "8">> }

Prefixes == { <<>>, <<"H", "t", "T", "p", ":", "/", "/">> }

Hosts == { <<>>, <<"a">> }

AfterPort == { <<>>, <<"/">>, <<"/", "x">>, <<"x">>, <<":">> }

\* The strings parseProxy() is called with: every string of at most MaxLen
\* of the characters a : /, and prefix host [: digits] rest.
ProxyInputs ==
  {NULL}
  \cup {CStr(s) : s \in SeqsUpTo({"a", ":", "/"}, MaxLen)}
  \cup {CStr(pre \o h \o t) : pre \in Prefixes, h \in Hosts, t \in AfterPort}
  \cup {CStr(pre \o h \o <<":">> \o d \o t) :
          pre \in Prefixes, h \in Hosts, d \in PortStrings, t \in AfterPort}

\* ----------------------------------------------------------- specifications

Init == InitGuard /\ InitProxy

Next ==
  \/ \E p \in SeqsUpTo(PwChars, MaxPwLen) : SupplyPassword(p) /\ UNCHANGED proxyVars
  \/ encryptPassword /\ UNCHANGED proxyVars
  \/ decryptPassword /\ UNCHANGED proxyVars
  \/ clearPassword /\ UNCHANGED proxyVars

Spec == Init /\ [][Next]_vars

NextProxy == \E v \in ProxyInputs : parseProxy(v) /\ UNCHANGED guardVars

SpecProxy == Init /\ [][NextProxy]_vars

\* ------------------------------------------------- claims: the obfuscation

\* encryptPassword() got past its early return and came back.
Encrypted == lastOp = "encrypt" /\ acted /\ ~crashed

ObfuscationInvariant ==
  (password # NULL /\ ~crashed) =>
    /\ encrypted = 1 =>
         /\ Len(passwordPad) = Len(password)
         /\ password = [i \in 1..Len(password) |->
                          Xor(Buf(plain)[i], passwordPad[i])]
    /\ encrypted = 0 => password = Buf(plain)

\* C3: after clearPassword() the component is in its initial empty state:
\* no secret, no pad, passwordLen 0, the flag false.
ClearResets ==
  (lastOp = "clear" /\ ~crashed) =>
    /\ password = NULL
    /\ passwordPad = NULL
    /\ passwordLen = 0
    /\ encrypted = 0

\* C4: clearPassword() has overwritten every byte of the secret's buffer and
\* every byte of the pad when it releases them.
ClearWipes ==
  (lastOp = "clear" /\ ~crashed) =>
    /\ released.pwWiped = released.pwSize
    /\ released.padWiped = released.padSize

\* C5: when encryptPassword() has obfuscated the secret, the pad it used and
\* passwordLen have the length of the secret's buffer.
PadMatchesSecret ==
  Encrypted =>
    /\ passwordLen = Len(password)
    /\ Len(passwordPad) = Len(password)

\* The secret in the buffer is the empty string.
EmptySecret == password # NULL /\ Strlen(password) = 0

\* A call that C10 names a no-op: the call made, in the state it is made in.
NoOpCall ==
  \/ lastOp' = "encrypt" /\ (password = NULL \/ encrypted = 1)
  \/ lastOp' = "decrypt" /\ (encrypted = 0 \/ password = NULL \/ passwordPad = NULL)
  \/ lastOp' = "clear" /\ password = NULL /\ passwordPad = NULL /\ passwordLen = 0

\* C10 as stated: encryptPassword() on an absent, an empty or an obfuscated
\* secret, decryptPassword() on a secret that is not obfuscated, absent or
\* without a pad, and clearPassword() on an empty component change neither
\* the buffer, the pad, passwordLen nor the flag.
NoOpsWithEmptySecret ==
  [][(NoOpCall \/ (lastOp' = "encrypt" /\ EmptySecret))
       => UNCHANGED <<password, passwordPad, passwordLen, encrypted>>]_vars

\* C10 amended: the same without the empty secret, which encryptPassword()
\* obfuscates like any other.
NoOps ==
  [][NoOpCall => UNCHANGED <<password, passwordPad, passwordLen, encrypted>>]_vars

\* encryptPassword() was called on an obfuscated secret and returned early.
NoOpSeen ==
  /\ lastOp = "encrypt" /\ ~acted
  /\ password # NULL /\ passwordPad # NULL /\ encrypted = 1
  /\ password # Buf(plain)

\* ------------------------------------------------------ claims: the parser

\* The characters of parseProxy()'s argument.
Chars(v) == SubSeq(v, 1, Len(v) - 1)

\* The argument starts with "http://", in any case.
HasPrefix(s) == Len(s) >= 7 /\ \A i \in 1..7 : ToLower(s[i]) = HttpPrefix[i]

AfterPrefix(s) == IF HasPrefix(s) THEN SubSeq(s, 8, Len(s)) ELSE s

\* The host segment: up to the first ':' or '/' or the end.
HostLen(b) ==
  CHOOSE k \in 0..Len(b) :
    /\ \A i \in 1..k : b[i] \notin {":", "/"}
    /\ k = Len(b) \/ b[k + 1] \in {":", "/"}

HostSegment(v) ==
  LET b == AfterPrefix(Chars(v)) IN SubSeq(b, 1, HostLen(b))

\* What follows the host segment.
Remainder(v) ==
  LET b == AfterPrefix(Chars(v)) IN SubSeq(b, HostLen(b) + 1, Len(b))

End == { <<>>, <<"/">> }

\* [ ":" digits ] [ "/" ]
RemainderOK(r) ==
  \/ r \in End
  \/ /\ r # <<>>
     /\ r[1] = ":"
     /\ \E d \in 0..(Len(r) - 1) :
          /\ \A i \in 2..(d + 1) : IsDigit(r[i])
          /\ SubSeq(r, d + 2, Len(r)) \in End

\* The digits given after the host's ':' (none: the empty string).
GivenDigits(v) ==
  LET r == Remainder(v)
  IN IF r = <<>> \/ r[1] # ":" THEN <<>>
     ELSE LET d == CHOOSE k \in 0..(Len(r) - 1) :
                     /\ \A i \in 2..(k + 1) : IsDigit(r[i])
                     /\ k + 1 = Len(r) \/ ~IsDigit(r[k + 2])
          IN SubSeq(r, 2, d + 1)

\* n >= 0 written in decimal.
RECURSIVE Decimal(_)
Decimal(n) ==
  IF n < 10 THEN <<Digits[n + 1]>>
  ELSE Append(Decimal(n \div 10), Digits[(n % 10) + 1])

\* The int n is the number the digit string d writes.
IsValueOf(n, d) == n >= 0 /\ Decimal(n) = StripZeros(d)

\* INT_MAX, 2147483647.
IntMaxDigits == <<"2", "1", "4", "7", "4", "8", "3", "6", "4", "7">>

FitsInt(d) == ~DigitsGreater(StripZeros(d), IntMaxDigits)

\* The last call had a string with a non-empty host segment.
HostGiven == value # NULL /\ HostSegment(value) # <<>>

\* The last call had no string, or one with an empty host segment.
NoHostGiven(v) == v = NULL \/ HostSegment(v) = <<>>

\* C6: a call that returns 1 leaves proxy->host and proxy->port as they were.
FailureKeepsProxy == [][ret' = 1 => proxy' = proxy]_vars

\* A call failed while a host and a port other than the default were stored.
FailureSeen ==
  /\ ret = 1
  /\ proxy.host = CStr(<<"a">>)
  /\ proxy.port = 8080
  /\ Remainder(value) = <<":", "8", "0", "8", "0", "/", "x">>

\* C7: with a non-empty host segment the call succeeds exactly when what
\* follows the host is [":" digits] ["/"], and then stores the host segment
\* and the port the digits write, or 80 without digits.
ParserContract ==
  HostGiven =>
    /\ ret = 0 <=> RemainderOK(Remainder(value))
    /\ ret = 0 =>
         /\ proxy.host = CStr(HostSegment(value))
         /\ IF GivenDigits(value) = <<>>
            THEN proxy.port = 80
            ELSE IsValueOf(proxy.port, GivenDigits(value))

\* C8 as stated: without a string, or with an empty host segment, the call
\* returns 0 and clears both the stored host and the stored port.
DisabledClearsHostAndPort ==
  NoHostGiven(value) => (ret = 0 /\ proxy.host = NULL /\ proxy.port = 0)

\* C8 amended: such a call returns 0 and clears the stored host; the stored
\* port stays as it was.
DisabledClearsHost ==
  [][NoHostGiven(value')
       => (ret' = 0 /\ proxy'.host = NULL /\ proxy'.port = proxy.port)]_vars

\* A call with an empty host segment has cleared a stored host; the port
\* stored with it is still there.
DisabledSeen ==
  /\ value = CStr(<<":">>)
  /\ ret = 0
  /\ proxy.host = NULL
  /\ proxy.port = 8080

\* C9: with digits after the host's ':', a number that does not fit an int
\* makes the call fail, and a port stored on success is positive and the
\* number the digits write.
PortFits ==
  (HostGiven /\ GivenDigits(value) # <<>>) =>
    /\ ~FitsInt(GivenDigits(value)) => ret = 1
    /\ ret = 0 => (proxy.port > 0 /\ IsValueOf(proxy.port, GivenDigits(value)))

====
